---- MODULE Spec2Model ----
(***************************************************************************)
(* Process execution and supervision of the CLI (src/tools.js):            *)
(*   - processTools.executeCommand / runCommands / isCommandAvailable      *)
(*     (inline execution)                                                  *)
(*   - TerminalManager (executeInNewTerminal, _handleProcess, killProcess,  *)
(*     getProcessInfo, listProcesses) and the 'exit' hook                  *)
(*     (terminal execution)                                                *)
(* Node.js runs every handler to completion on one thread; a promise       *)
(* continuation (microtask) runs before the next event handler.  An        *)
(* exception thrown by an event handler, and an 'error' event nobody       *)
(* listens to, are uncaught exceptions: the program terminates.            *)
(***************************************************************************)
EXTENDS Integers, Sequences, FiniteSets, TLC

\* ------------------------------------------------------------------ bounds
MaxCalls == 2
MaxOut == 1
MaxLaunch == 2
MaxLog == 2

Calls == 1..MaxCalls
Launches == 1..MaxLaunch
Chunks == {"x"}
CommandNames == {"cmdA", "cmdB"}
OptionValues == {"unset", "true", "false"}

\* ------------------------------------------------------- JavaScript values
\* A JavaScript value of the kinds the code handles: number, string, null,
\* undefined.  t is the type tag, n the number, s the text (a sequence of chunks).
Num(n) == [t |-> "number", n |-> n, s |-> <<>>]
Str(s) == [t |-> "string", n |-> 0, s |-> s]
Null == [t |-> "null", n |-> 0, s |-> <<>>]
Undefined == [t |-> "undefined", n |-> 0, s |-> <<>>]

\* a === b
StrictEquals(a, b) == a.t = b.t /\ a.n = b.n /\ a.s = b.s

\* !a
Falsy(a) ==
    \/ a.t \in {"null", "undefined"}
    \/ a.t = "number" /\ a.n = 0
    \/ a.t = "string" /\ a.s = <<>>

\* const { verbose = true, throwOnError = true } = options: an option that is
\* not given takes its default.
OptionOr(v, default) == IF v = "unset" THEN default ELSE v = "true"

\* if (options.stopOnError): an option that is not given is falsy.
Truthy(v) == v = "true"

\* The exit code Node passes to 'close' when the child could not be started
\* (a negative errno, ENOENT here), and the code the 'error' handler reports.
SpawnErrno == 0 - 2
StartFailureCode == 0 - 1
ExitCodes == {Num(0), Num(7), Null}

VARIABLES
    cCaller, cOpts, cChild, cListen, cStdout, cStderr, cPromise, cValue, cExit,
    availReturn,
    bState, bCmds, bOpts, bIdx, bResults, bError,
    uncaught,
    isWindows, activeProcesses, tState, tPid, tWritten, tLog, tEnded, tPromise, tValue,
    tExit, lastKill, exitHook, lastInfo

cmdVars == <<cCaller, cOpts, cChild, cListen, cStdout, cStderr, cPromise, cValue, cExit,
             availReturn>>
batchVars == <<bState, bCmds, bOpts, bIdx, bResults, bError>>
termVars == <<isWindows, activeProcesses, tState, tPid, tWritten, tLog, tEnded, tPromise,
              tValue, tExit, lastKill, exitHook, lastInfo>>
vars == <<cmdVars, batchVars, uncaught, termVars>>

\* ------------------------------------------------------- executeCommand
NoValue ==
    [kind |-> "none", success |-> FALSE, code |-> Undefined,
     stdout |-> Undefined, stderr |-> Undefined, error |-> ""]

\* TypeError: child.stdout is null (stdio: 'ignore'), so child.stdout.on throws
\* inside the promise executor and the promise is rejected with it.
TypeErrorValue ==
    [kind |-> "TypeError", success |-> FALSE, code |-> Undefined,
     stdout |-> Undefined, stderr |-> Undefined, error |-> "TypeError"]

\* resolve({success: false, code: -1, stdout, stderr: error.message, error})
ErrorResult(out) ==
    [kind |-> "result", success |-> FALSE, code |-> Num(StartFailureCode),
     stdout |-> Str(out), stderr |-> Str(<<"spawn ENOENT">>), error |-> "spawn ENOENT"]

\* A variant of the test below: success = !code.
CloseSuccessFalsy(code) == Falsy(code)

\* const success = code === 0
CloseSuccess(code) == StrictEquals(code, Num(0))

\* resolve({success, code, stdout, stderr})
CloseResult(code, out, err) ==
    [kind |-> "result", success |-> CloseSuccess(code), code |-> code,
     stdout |-> Str(out), stderr |-> Str(err), error |-> ""]

\* if (!success && throwOnError) throw error
CloseThrows(code, throwOnError) == ~CloseSuccess(code) /\ throwOnError

\* A settled promise ignores resolve().
Settled(c) == cPromise[c] \in {"fulfilled", "rejected"}

\* The continuation of an await (runCommands, isCommandAvailable) is a
\* microtask: it runs before any event.
MicrotaskPending ==
    \/ bState = "loop"
    \/ bState = "await" /\ Settled(bIdx)
    \/ \E c \in Calls : cCaller[c] = "isCommandAvailable" /\ Settled(c) /\ availReturn[c] = "none"

\* The program is running: no uncaught exception has terminated it and it
\* has not exited.
Running == uncaught = {} /\ ~exitHook.ran

\* The synchronous part of executeCommand(command, options) in call slot c:
\* spawn the shell (started, or failing with ENOENT/EACCES, reported later by
\* an 'error' event), then register the listeners.  With verbose false the
\* child has no stdout, registering throws and no listener is registered.
executeCommand(c, caller, verboseOpt, throwOpt, started) ==
    LET verbose == OptionOr(verboseOpt, TRUE)
        throwOnError == OptionOr(throwOpt, TRUE)
    IN  /\ cCaller' = [cCaller EXCEPT ![c] = caller]
        /\ cOpts' = [cOpts EXCEPT ![c] = [verbose |-> verbose, throwOnError |-> throwOnError]]
        /\ cChild' = [cChild EXCEPT ![c] = IF started THEN "alive" ELSE "spawnfail"]
        /\ cListen' = [cListen EXCEPT ![c] = verbose]
        /\ cPromise' = [cPromise EXCEPT ![c] = IF verbose THEN "pending" ELSE "rejected"]
        /\ cValue' = [cValue EXCEPT ![c] = IF verbose THEN NoValue ELSE TypeErrorValue]
        /\ UNCHANGED <<cStdout, cStderr, cExit>>

\* The chunks the children have written so far (the model stops at MaxOut).
RECURSIVE SumLen(_, _)
SumLen(f, n) == IF n = 0 THEN 0 ELSE Len(f[n]) + SumLen(f, n - 1)

OutputSoFar == SumLen(cStdout, MaxCalls) + SumLen(cStderr, MaxCalls)

\* A direct call of executeCommand by the program (several may be in flight;
\* the model runs direct calls and a batch in separate behaviours).
ExecuteCommandCall(c) ==
    /\ Running /\ ~MicrotaskPending
    /\ cCaller[c] = "none"
    /\ bState = "idle"
    /\ \E v \in OptionValues, t \in OptionValues, started \in BOOLEAN :
          executeCommand(c, "direct", v, t, started)
    /\ UNCHANGED <<availReturn, batchVars, uncaught, termVars>>

\* child.stdout.on('data'): stdout += data.toString()
StdoutData(c) ==
    /\ Running /\ ~MicrotaskPending
    /\ cChild[c] = "alive" /\ cListen[c]
    /\ OutputSoFar < MaxOut
    /\ \E d \in Chunks : cStdout' = [cStdout EXCEPT ![c] = @ \o <<d>>]
    /\ UNCHANGED <<cCaller, cOpts, cChild, cListen, cStderr, cPromise, cValue, cExit,
                   availReturn, batchVars, uncaught, termVars>>

\* child.stderr.on('data'): stderr += data.toString()
StderrData(c) ==
    /\ Running /\ ~MicrotaskPending
    /\ cChild[c] = "alive" /\ cListen[c]
    /\ OutputSoFar < MaxOut
    /\ \E d \in Chunks : cStderr' = [cStderr EXCEPT ![c] = @ \o <<d>>]
    /\ UNCHANGED <<cCaller, cOpts, cChild, cListen, cStdout, cPromise, cValue, cExit,
                   availReturn, batchVars, uncaught, termVars>>

\* The 'error' event of a child that could not be started.  Without a
\* listener (verbose false) the event is an uncaught exception.
ChildError(c) ==
    /\ Running /\ ~MicrotaskPending
    /\ cChild[c] = "spawnfail"
    /\ cChild' = [cChild EXCEPT ![c] = "errored"]
    /\ IF cListen[c]
       THEN /\ cPromise' = [cPromise EXCEPT ![c] = IF Settled(c) THEN @ ELSE "fulfilled"]
            /\ cValue' = [cValue EXCEPT ![c] = IF Settled(c) THEN @ ELSE ErrorResult(cStdout[c])]
            /\ UNCHANGED uncaught
       ELSE /\ uncaught' = uncaught \cup {[in |-> "executeCommand", call |-> c,
                                           event |-> "error", code |-> Num(SpawnErrno)]}
            /\ UNCHANGED <<cPromise, cValue>>
    /\ UNCHANGED <<cCaller, cOpts, cListen, cStdout, cStderr, cExit, availReturn, batchVars,
                   termVars>>

\* The 'close' handler, given the code the child closed with.  A throw in
\* the handler leaves the handler: it is an uncaught exception, and the
\* promise is not settled by it.
closeHandler(c, code) ==
    IF ~cListen[c]
    THEN UNCHANGED <<cPromise, cValue, uncaught>>
    ELSE IF CloseThrows(code, cOpts[c].throwOnError)
    THEN /\ uncaught' = uncaught \cup {[in |-> "executeCommand", call |-> c,
                                        event |-> "close", code |-> code]}
         /\ UNCHANGED <<cPromise, cValue>>
    ELSE /\ cPromise' = [cPromise EXCEPT ![c] = IF Settled(c) THEN @ ELSE "fulfilled"]
         /\ cValue' = [cValue EXCEPT ![c] =
                          IF Settled(c) THEN @ ELSE CloseResult(code, cStdout[c], cStderr[c])]
         /\ UNCHANGED uncaught

\* The 'close' event: a started child closes with its exit code, or with
\* null when a signal ended it; a child that could not be started closes
\* with the errno, after its 'error' event.
ChildClose(c) ==
    /\ Running /\ ~MicrotaskPending
    /\ cChild[c] \in {"alive", "errored"}
    /\ \E code \in (IF cChild[c] = "alive" THEN ExitCodes ELSE {Num(SpawnErrno)}) :
          /\ cExit' = [cExit EXCEPT ![c] = code]
          /\ closeHandler(c, code)
    /\ cChild' = [cChild EXCEPT ![c] = IF @ = "alive" THEN "closed" ELSE "failclosed"]
    /\ UNCHANGED <<cCaller, cOpts, cListen, cStdout, cStderr, availReturn, batchVars,
                   termVars>>

\* ----------------------------------------------------- isCommandAvailable
\* isCommandAvailable(command): `where`/`command -v` is run through
\* executeCommand(checkCmd, {verbose: false}) and awaited.
IsCommandAvailable(c) ==
    /\ Running /\ ~MicrotaskPending
    /\ cCaller[c] = "none"
    /\ bState = "idle"
    /\ \E started \in BOOLEAN : executeCommand(c, "isCommandAvailable", "false", "unset", started)
    /\ UNCHANGED <<availReturn, batchVars, uncaught, termVars>>

\* The continuation of the await: return result.success, or return false
\* from the catch block when executeCommand rejected.
IsCommandAvailableResume(c) ==
    /\ Running
    /\ cCaller[c] = "isCommandAvailable" /\ Settled(c) /\ availReturn[c] = "none"
    /\ availReturn' = [availReturn EXCEPT ![c] =
                          IF cPromise[c] = "fulfilled" /\ cValue[c].success THEN "true"
                          ELSE "false"]
    /\ UNCHANGED <<cCaller, cOpts, cChild, cListen, cStdout, cStderr, cPromise, cValue, cExit,
                   batchVars, uncaught, termVars>>

\* ------------------------------------------------------------ runCommands
BatchInputs == UNION {[1..n -> CommandNames] : n \in 1..MaxCalls}

\* runCommands(commands, options): const results = []; the loop starts.
RunCommands ==
    /\ Running
    /\ bState = "idle"
    /\ \E cmds \in BatchInputs :
          /\ \A i \in Calls : cCaller[i] = "none"
          /\ bCmds' = cmds
    /\ \E s \in OptionValues, t \in OptionValues, v \in OptionValues :
          bOpts' = [stopOnError |-> s, throwOnError |-> t, verbose |-> v]
    /\ bState' = "loop"
    /\ bIdx' = 1
    /\ bResults' = <<>>
    /\ UNCHANGED <<cmdVars, bError, uncaught, termVars>>

\* for (const cmd of commands): the next command's executeCommand is called
\* with {cwd, ...options} and awaited; after the last one the results are
\* returned.
BatchIterate ==
    /\ Running
    /\ bState = "loop"
    /\ IF bIdx > Len(bCmds)
       THEN /\ bState' = "returned"
            /\ UNCHANGED <<cmdVars, bIdx>>
       ELSE /\ bState' = "await"
            /\ \E started \in BOOLEAN :
                  executeCommand(bIdx, "batch", bOpts.verbose, bOpts.throwOnError, started)
            /\ UNCHANGED bIdx
    /\ UNCHANGED <<availReturn, bCmds, bOpts, bResults, bError, uncaught, termVars>>

\* results.push({command: cmd.command, success: result.success, ...result})
TryEntry(command, result) ==
    [command |-> command, success |-> result.success, code |-> result.code,
     stdout |-> result.stdout, stderr |-> result.stderr, error |-> result.error]

\* results.push({command, success: false, error: error.message, code: error.code,
\*               stdout: error.stdout, stderr: error.stderr})
CatchEntry(command, error) ==
    [command |-> command, success |-> FALSE, code |-> error.code,
     stdout |-> error.stdout, stderr |-> error.stderr, error |-> error.error]

\* The continuation of `await this.executeCommand(...)`: the try branch on a
\* result, the catch branch on a rejection.
BatchResume ==
    /\ Running
    /\ bState = "await" /\ Settled(bIdx)
    /\ IF cPromise[bIdx] = "fulfilled"
       THEN /\ bResults' = Append(bResults, TryEntry(bCmds[bIdx], cValue[bIdx]))
            /\ bState' = "loop"
            /\ bIdx' = bIdx + 1
            /\ UNCHANGED bError
       ELSE /\ bResults' = Append(bResults, CatchEntry(bCmds[bIdx], cValue[bIdx]))
            /\ IF Truthy(bOpts.stopOnError)
               THEN /\ bState' = "thrown"
                    /\ bError' = cValue[bIdx]
                    /\ UNCHANGED bIdx
               ELSE /\ bState' = "loop"
                    /\ bIdx' = bIdx + 1
                    /\ UNCHANGED bError
    /\ UNCHANGED <<cmdVars, bCmds, bOpts, uncaught, termVars>>

\* -------------------------------------------------------- TerminalManager
\* The key of a record whose child could not be started: child.pid is undefined.
UndefinedPid == 0
Pids == 1..MaxLaunch
PidKeys == Pids \cup {UndefinedPid}

\* The pids the operating system has given to children that have not exited:
\* it gives a new child any other pid, also one whose earlier owner has
\* exited while that owner's 'close' event is still to come.
OsAlive == {tPid[l] : l \in {k \in Launches : tState[k] = "alive"}}

\* The pids given to children so far.  Pids that were never given are
\* interchangeable: the lowest stands for them.
UsedPids == {tPid[l] : l \in {k \in Launches : tState[k] # "none"}} \ {UndefinedPid}
NewPids ==
    (UsedPids \ OsAlive) \cup
        {p \in Pids : p \notin UsedPids /\ \A q \in Pids : q < p => q \in UsedPids}

\* Map.prototype.set / delete / has on activeProcesses.
MapSet(m, k, v) == [p \in (DOMAIN m) \cup {k} |-> IF p = k THEN v ELSE m[p]]
\* A variant of delete: the entry stays.
MapKeep(m, k) == m
MapDelete(m, k) == [p \in (DOMAIN m) \ {k} |-> m[p]]
MapHas(m, k) == k \in DOMAIN m

\* A variant of the flag below: killProcess sets it when it succeeds.
ChildKilledByKillProcess(l) == lastKill.called /\ lastKill.ret /\ lastKill.pid = tPid[l]

\* child.killed: set by child.kill() only, which the code never calls.
ChildKilled(l) == FALSE

\* `${code}` in the log line.
TemplateText(v) ==
    CASE v.t = "null" -> "null"
      [] v.t = "undefined" -> "undefined"
      [] v.t = "number" /\ v.n = 0 -> "0"
      [] v.t = "number" /\ v.n = 7 -> "7"
      [] v.t = "number" /\ v.n = SpawnErrno -> "-2"
      [] OTHER -> "NaN"

NoTermValue == [success |-> FALSE, exitCode |-> Undefined, outputPath |-> 0, pid |-> UndefinedPid]

\* The terminal invocation built on Windows: `start "title" /k|/c
\* "command[ & pause]"`, with keepCmd = keepOpen ? '/k' : '/c' and
\* waitCmd = wait ? ' & pause' : ''.
WindowsInvocation(keepOpen, wait) ==
    [program |-> "cmd.exe",
     keepCmd |-> IF keepOpen THEN "/k" ELSE "/c",
     waitCmd |-> IF wait THEN " & pause" ELSE ""]

\* The terminal invocation built elsewhere: `bash -c "command[; $SHELL];
\* echo '...'; read -n 1"` run by the terminal emulator, with
\* keepCmd = keepOpen ? '; $SHELL' : ''.  The key press is always waited for.
PosixInvocation(keepOpen, wait) ==
    [program |-> "x-terminal-emulator",
     keepCmd |-> IF keepOpen THEN "; $SHELL" ELSE "",
     waitCmd |-> "; read -n 1"]

\* const { wait = true, keepOpen = true } = options, and the invocation of
\* the platform.
TerminalInvocation(keepOpenOpt, waitOpt) ==
    IF isWindows
    THEN WindowsInvocation(OptionOr(keepOpenOpt, TRUE), OptionOr(waitOpt, TRUE))
    ELSE PosixInvocation(OptionOr(keepOpenOpt, TRUE), OptionOr(waitOpt, TRUE))

\* this.activeProcesses.set(pid, {process, logFile, startTime, command}):
\* the start time of launch l is written l, the command is the invocation
\* (process.spawnargs).
handleProcess(l, pid, invocation) ==
    activeProcesses' = MapSet(activeProcesses, pid,
                              [process |-> l, logFile |-> l, startTime |-> l,
                               command |-> invocation])

\* executeInNewTerminal(command, options) for launch l: the log stream is
\* created, the terminal is spawned (started with a pid, or failing with
\* ENOENT/EACCES: pid undefined, an 'error' event follows) and _handleProcess
\* registers the data and close listeners and the record.  For other
\* errors spawn throws: the throw leaves the promise executor before
\* _handleProcess is called and the promise is rejected.
executeInNewTerminal(l, keepOpenOpt, waitOpt) ==
    /\ Running
    /\ tState[l] = "none"
    /\ \A k \in Launches : k < l => tState[k] # "none"
    /\ \/ /\ \E pid \in NewPids \cup {UndefinedPid} :
                /\ tPid' = [tPid EXCEPT ![l] = pid]
                /\ tState' = [tState EXCEPT ![l] =
                                 IF pid = UndefinedPid THEN "spawnfail" ELSE "alive"]
                /\ handleProcess(l, pid, TerminalInvocation(keepOpenOpt, waitOpt))
          /\ tPromise' = [tPromise EXCEPT ![l] = "pending"]
       \/ /\ tState' = [tState EXCEPT ![l] = "threw"]
          /\ tPromise' = [tPromise EXCEPT ![l] = "rejected"]
          /\ UNCHANGED <<tPid, activeProcesses>>
    /\ UNCHANGED <<cmdVars, batchVars, uncaught, isWindows, tWritten, tLog, tEnded, tValue, tExit,
                   lastKill, exitHook, lastInfo>>

\* A launch with the default options.
ExecuteInNewTerminal(l) == executeInNewTerminal(l, "unset", "unset")

\* processTools.executeInTerminal(command, options): it passes
\* wait: options.wait !== false and keepOpen: options.keepOpen !== false,
\* which are the defaults of executeInNewTerminal again.
ExecuteInTerminal(l) ==
    \E keepOpenOpt \in OptionValues, waitOpt \in OptionValues :
        executeInNewTerminal(l, IF keepOpenOpt = "false" THEN "false" ELSE "true",
                                IF waitOpt = "false" THEN "false" ELSE "true")

\* The chunks the children of the launches 1..n have written so far (the
\* model stops at a budget).
RECURSIVE ChunksWritten(_)
ChunksWritten(n) ==
    IF n = 0 THEN 0 ELSE tWritten[n].OUT + tWritten[n].ERR + ChunksWritten(n - 1)

\* A variant of the write below: the entry is put in front of the file.
LogWriteFirst(log, entry) == <<entry>> \o log

\* logStream.write(text): the text is appended to the log file.
LogWrite(log, entry) == Append(log, entry)

\* The child of launch l writes a chunk to its stdout (tag OUT) or stderr
\* (tag ERR) and the 'data' listener of the stream handles it:
\* logStream.write(`[OUT] ${output}`) or logStream.write(`[ERR] ${error}`).
\* tWritten counts the chunks the child has written to each stream; a chunk
\* is named by its text and its number in its stream.
TermData(l, tag, budget) ==
    /\ Running
    /\ tState[l] \in {"alive", "exited"}
    /\ ChunksWritten(MaxLaunch) < budget
    /\ tWritten' = [tWritten EXCEPT ![l][tag] = @ + 1]
    /\ \E d \in Chunks :
          tLog' = [tLog EXCEPT ![l] =
                      LogWrite(@, [tag |-> tag, text |-> d, n |-> tWritten[l][tag] + 1])]
    /\ UNCHANGED <<cmdVars, batchVars, uncaught, isWindows, activeProcesses, tState, tPid,
                   tEnded, tPromise, tValue, tExit, lastKill, exitHook, lastInfo>>

\* process.stdout.on('data')
TermStdout(l) == TermData(l, "OUT", MaxOut)

\* process.stderr.on('data')
TermStderr(l) == TermData(l, "ERR", MaxOut)

\* The same listeners, with the larger number of chunks the specification
\* of the log files lets the children write.
LogStdout(l) == TermData(l, "OUT", MaxLog)
LogStderr(l) == TermData(l, "ERR", MaxLog)

\* The child exits (no listener): the operating system releases its pid.  Its
\* 'close' event follows once its output streams have closed.
TermExit(l) ==
    /\ Running
    /\ tState[l] = "alive"
    /\ tState' = [tState EXCEPT ![l] = "exited"]
    /\ \E code \in ExitCodes : tExit' = [tExit EXCEPT ![l] = code]
    /\ UNCHANGED <<cmdVars, batchVars, uncaught, isWindows, activeProcesses, tPid, tWritten, tLog,
                   tEnded, tPromise, tValue, lastKill, exitHook, lastInfo>>

\* resolve({success: code === 0, exitCode: code, outputPath: logFile, pid})
TermResult(l, code) ==
    [success |-> StrictEquals(code, Num(0)), exitCode |-> code, outputPath |-> l,
     pid |-> tPid[l]]

\* process.on('close'): the exit line is written, the log stream ended, the
\* entry of pid deleted and the promise resolved.
TermClose(l) ==
    /\ Running
    /\ tState[l] = "exited"
    /\ tState' = [tState EXCEPT ![l] = "closed"]
    /\ tLog' = [tLog EXCEPT ![l] =
                   LogWrite(@, [tag |-> "INFO", text |-> TemplateText(tExit[l]), n |-> 0])]
    /\ tEnded' = [tEnded EXCEPT ![l] = TRUE]
    /\ activeProcesses' = MapDelete(activeProcesses, tPid[l])
    /\ tPromise' = [tPromise EXCEPT ![l] = IF @ = "pending" THEN "fulfilled" ELSE @]
    /\ tValue' = [tValue EXCEPT ![l] = IF tPromise[l] = "pending" THEN TermResult(l, tExit[l]) ELSE @]
    /\ UNCHANGED <<cmdVars, batchVars, uncaught, isWindows, tPid, tWritten, tExit, lastKill,
                   exitHook, lastInfo>>

\* The 'error' event of a terminal that could not be started: _handleProcess
\* registers no 'error' listener, so the event is an uncaught exception (and
\* no 'close' event follows it).
TermError(l) ==
    /\ Running
    /\ tState[l] = "spawnfail"
    /\ tState' = [tState EXCEPT ![l] = "errored"]
    /\ uncaught' = uncaught \cup {[in |-> "executeInTerminal", call |-> l,
                                   event |-> "error", code |-> Num(SpawnErrno)]}
    /\ UNCHANGED <<cmdVars, batchVars, isWindows, activeProcesses, tPid, tWritten, tLog, tEnded,
                   tPromise, tValue, tExit, lastKill, exitHook, lastInfo>>

\* A variant of the lookup below: the missing record is not noticed.
KillFindsAlways(pid) == TRUE

\* const proc = this.activeProcesses.get(pid); if (!proc) return false
KillFinds(pid) == MapHas(activeProcesses, pid)

\* Whether a termination request for pid can reach a process: never for the
\* undefined pid, always while the child that holds pid has not exited;
\* after its exit (its close event still to come) members of its process
\* group or tree may be left or not.
Reachable(pid) ==
    {r \in BOOLEAN : /\ pid = UndefinedPid => ~r
                     /\ pid \in OsAlive => r}

\* What a call of killProcess(pid) can do: the pid, whether the record was
\* found, the termination request issued, whether it reached a process and
\* the value returned.
\* It returns false when there is no record.  Otherwise, on Windows,
\* taskkill is spawned and true is returned, whatever taskkill will find;
\* elsewhere SIGTERM is sent to the process group -pid: process.kill throws
\* for an undefined pid and for a group that is gone, and false is returned.
KillOutcomes(pid) ==
    IF ~KillFinds(pid)
    THEN {[called |-> TRUE, pid |-> pid, found |-> FALSE, signal |-> "none",
           reached |-> FALSE, ret |-> FALSE]}
    ELSE IF isWindows
    THEN {[called |-> TRUE, pid |-> pid, found |-> TRUE, signal |-> "taskkill",
           reached |-> r, ret |-> TRUE] : r \in Reachable(pid)}
    ELSE {[called |-> TRUE, pid |-> pid, found |-> TRUE,
           signal |-> IF r THEN "SIGTERM" ELSE "none", reached |-> r, ret |-> r] :
             r \in Reachable(pid)}

\* killProcess(pid) called by the program, with what the call did in lastKill.
killProcess(pid) ==
    /\ Running
    /\ lastKill' \in KillOutcomes(pid)
    /\ UNCHANGED <<cmdVars, batchVars, uncaught, isWindows, activeProcesses, tState, tPid,
                   tWritten, tLog, tEnded, tPromise, tValue, tExit, exitHook, lastInfo>>

\* listProcesses(): one entry per record of activeProcesses.
listProcesses ==
    {[pid |-> p, command |-> activeProcesses[p].command,
      startTime |-> activeProcesses[p].startTime, logFile |-> activeProcesses[p].logFile,
      running |-> ~ChildKilled(activeProcesses[p].process)] : p \in DOMAIN activeProcesses}

\* The value getProcessInfo returns for a pid without a record.
NullInfo == [null |-> TRUE]

\* A variant of the lookup below: an entry is made up for a missing record.
InfoOfAny(pid) ==
    [pid |-> pid, command |-> TerminalInvocation("unset", "unset"), startTime |-> 0,
     logFile |-> 0, running |-> TRUE]

\* const proc = this.activeProcesses.get(pid); if (!proc) return null;
\* return {pid, command, startTime, logFile, running: !proc.process.killed}
InfoOf(pid) ==
    IF ~MapHas(activeProcesses, pid)
    THEN NullInfo
    ELSE [pid |-> pid, command |-> activeProcesses[pid].command,
          startTime |-> activeProcesses[pid].startTime,
          logFile |-> activeProcesses[pid].logFile,
          running |-> ~ChildKilled(activeProcesses[pid].process)]

\* getProcessInfo(pid) called by the program, with the pid and the value
\* returned in lastInfo.
getProcessInfo(pid) ==
    /\ Running
    /\ lastInfo' = [called |-> TRUE, pid |-> pid, info |-> InfoOf(pid)]
    /\ UNCHANGED <<cmdVars, batchVars, uncaught, isWindows, activeProcesses, tState, tPid,
                   tWritten, tLog, tEnded, tPromise, tValue, tExit, lastKill, exitHook>>

\* A variant of the selection below: the hook kills nothing.
HookTargetsNone(list) == {}

\* forEach(proc => { if (proc.running) ... }): the entries the hook kills.
HookTargets(list) == {proc \in list : proc.running}

\* process.on('exit'): the program exits (process.exit, nothing left to do,
\* or an uncaught exception) and the hook calls killProcess(proc.pid) for
\* every entry of listProcesses() that is reported running.  exitHook.kills
\* holds what each of these calls did.  Nothing runs after the hook.
ProcessExit ==
    /\ ~exitHook.ran
    /\ \E K \in SUBSET (UNION {KillOutcomes(proc.pid) : proc \in HookTargets(listProcesses)}) :
          /\ \A proc \in HookTargets(listProcesses) :
                Cardinality({k \in K : k.pid = proc.pid}) = 1
          /\ exitHook' = [ran |-> TRUE, kills |-> K]
    /\ UNCHANGED <<cmdVars, batchVars, uncaught, isWindows, activeProcesses, tState, tPid,
                   tWritten, tLog, tEnded, tPromise, tValue, tExit, lastKill, lastInfo>>

\* ---------------------------------------------------------- initial state
InitCommand ==
    /\ cCaller = [c \in Calls |-> "none"]
    /\ cOpts = [c \in Calls |-> [verbose |-> TRUE, throwOnError |-> TRUE]]
    /\ cChild = [c \in Calls |-> "none"]
    /\ cListen = [c \in Calls |-> FALSE]
    /\ cStdout = [c \in Calls |-> <<>>]
    /\ cStderr = [c \in Calls |-> <<>>]
    /\ cPromise = [c \in Calls |-> "none"]
    /\ cValue = [c \in Calls |-> NoValue]
    /\ cExit = [c \in Calls |-> Undefined]
    /\ availReturn = [c \in Calls |-> "none"]
    /\ bState = "idle"
    /\ bCmds = <<>>
    /\ bOpts = [stopOnError |-> "unset", throwOnError |-> "unset", verbose |-> "unset"]
    /\ bIdx = 1
    /\ bResults = <<>>
    /\ bError = NoValue
    /\ uncaught = {}

InitTerminal ==
    /\ activeProcesses = <<>>
    /\ tState = [l \in Launches |-> "none"]
    /\ tPid = [l \in Launches |-> UndefinedPid]
    /\ tWritten = [l \in Launches |-> [OUT |-> 0, ERR |-> 0]]
    /\ tLog = [l \in Launches |-> <<>>]
    /\ tEnded = [l \in Launches |-> FALSE]
    /\ tPromise = [l \in Launches |-> "none"]
    /\ tValue = [l \in Launches |-> NoTermValue]
    /\ tExit = [l \in Launches |-> Undefined]
    /\ lastKill = [called |-> FALSE, pid |-> UndefinedPid, found |-> FALSE, signal |-> "none",
                   reached |-> FALSE, ret |-> FALSE]
    /\ exitHook = [ran |-> FALSE, kills |-> {}]
    /\ lastInfo = [called |-> FALSE, pid |-> UndefinedPid, info |-> NullInfo]

Init == InitCommand /\ InitTerminal /\ isWindows \in BOOLEAN

InitInline == InitCommand /\ InitTerminal /\ isWindows = FALSE

NextCommand ==
    \/ \E c \in Calls : ExecuteCommandCall(c)
    \/ \E c \in Calls : StdoutData(c)
    \/ \E c \in Calls : StderrData(c)
    \/ \E c \in Calls : ChildError(c)
    \/ \E c \in Calls : ChildClose(c)
    \/ \E c \in Calls : IsCommandAvailable(c)
    \/ \E c \in Calls : IsCommandAvailableResume(c)
    \/ RunCommands
    \/ BatchIterate
    \/ BatchResume

SpecCommand == InitInline /\ [][NextCommand]_vars

NextTerminal ==
    \/ \E l \in Launches : ExecuteInNewTerminal(l)
    \/ \E l \in Launches : TermStdout(l)
    \/ \E l \in Launches : TermStderr(l)
    \/ \E l \in Launches : TermExit(l)
    \/ \E l \in Launches : TermClose(l)
    \/ \E l \in Launches : TermError(l)
    \/ \E pid \in PidKeys : killProcess(pid)

SpecTerminal == Init /\ [][NextTerminal]_vars

\* The same program with the events of the children delivered fairly: the
\* 'close' event of a child that has exited and the 'error' event of a child
\* that could not be started are handled eventually.
SpecCancel ==
    /\ Init /\ [][NextTerminal]_vars
    /\ \A l \in Launches : WF_vars(TermClose(l)) /\ WF_vars(TermError(l))

\* The launches and their log files.  killProcess writes no log and is left
\* out; the children write up to MaxLog chunks.
NextLog ==
    \/ \E l \in Launches : ExecuteInNewTerminal(l)
    \/ \E l \in Launches : LogStdout(l)
    \/ \E l \in Launches : LogStderr(l)
    \/ \E l \in Launches : TermExit(l)
    \/ \E l \in Launches : TermClose(l)
    \/ \E l \in Launches : TermError(l)

SpecLog == Init /\ [][NextLog]_vars

\* The launches and the exit of the program.
NextShutdown ==
    \/ \E l \in Launches : ExecuteInNewTerminal(l)
    \/ \E l \in Launches : TermExit(l)
    \/ \E l \in Launches : TermClose(l)
    \/ \E l \in Launches : TermError(l)
    \/ ProcessExit

SpecShutdown == Init /\ [][NextShutdown]_vars

\* The launches, the queries of the registry and killProcess.
NextQuery ==
    \/ \E l \in Launches : ExecuteInNewTerminal(l)
    \/ \E l \in Launches : TermExit(l)
    \/ \E l \in Launches : TermClose(l)
    \/ \E l \in Launches : TermError(l)
    \/ \E pid \in PidKeys : getProcessInfo(pid)
    \/ \E pid \in PidKeys : killProcess(pid)

SpecQuery == Init /\ [][NextQuery]_vars

\* The launches through processTools.executeInTerminal, with their options.
NextLaunch ==
    \/ \E l \in Launches : ExecuteInTerminal(l)
    \/ \E l \in Launches : TermExit(l)
    \/ \E l \in Launches : TermClose(l)
    \/ \E l \in Launches : TermError(l)

SpecLaunch == Init /\ [][NextLaunch]_vars

\* ------------------------------------------------------------------ claims
\* The uncaught exceptions raised by call c of executeCommand.
FaultsOf(c) == {e \in uncaught : e.in = "executeCommand" /\ e.call = c}

\* The child of call c ran and closed with a non-zero exit code.
ExitedNonZero(c) == cChild[c] = "closed" /\ cExit[c].t = "number" /\ cExit[c].n # 0

\* Command i of the batch failed: its child closed with a code other than 0
\* (or by a signal), or could not be started.
CmdFailed(i) ==
    \/ cChild[i] = "closed" /\ ~StrictEquals(cExit[i], Num(0))
    \/ cChild[i] \in {"errored", "failclosed"}

\* C1: every process launched by executeInTerminal has a record under its pid
\* in listProcesses() from its spawn until its close event has been handled,
\* and none of its own before its spawn or after its close was handled.
C1_RecordFromSpawnToClose ==
    \A l \in Launches :
        /\ tState[l] \in {"alive", "exited"} => \E r \in listProcesses : r.pid = tPid[l]
        /\ tState[l] \in {"none", "closed"} => ~(\E r \in listProcesses : r.logFile = l)

\* C2: for every result executeCommand returns, result.code === 0 holds if
\* and only if result.success === true.
C2_CodeZeroIffSuccess ==
    \A c \in Calls :
        cPromise[c] = "fulfilled" =>
            (StrictEquals(cValue[c].code, Num(0)) <=> cValue[c].success = TRUE)

\* A child ended by a signal (code null) has produced a returned result.
C2_Witness ==
    \E c \in Calls :
        /\ cPromise[c] = "fulfilled" /\ cChild[c] = "closed"
        /\ cValue[c].code = Null /\ cValue[c].success = FALSE

\* C3: with throwOnError=false, once the child has exited with a non-zero
\* code N the call has raised nothing and is resolved with {success: false,
\* code: N} and the captured stdout and stderr.
C3_NonZeroExitReturned ==
    \A c \in Calls :
        (cCaller[c] # "none" /\ ~cOpts[c].throwOnError /\ ExitedNonZero(c)) =>
            /\ cPromise[c] = "fulfilled"
            /\ cValue[c] = [kind |-> "result", success |-> FALSE, code |-> cExit[c],
                            stdout |-> Str(cStdout[c]), stderr |-> Str(cStderr[c]),
                            error |-> ""]
            /\ FaultsOf(c) = {}

\* C4: with throwOnError=true, once the child has exited with a non-zero code
\* N the caller observes a raised failure carrying code N and the captured
\* streams: the promise is rejected with it, it is not left pending and no
\* fault escapes the caller's control flow.
C4_NonZeroExitRaised ==
    \A c \in Calls :
        (cCaller[c] # "none" /\ cOpts[c].throwOnError /\ ExitedNonZero(c)) =>
            /\ cPromise[c] = "rejected"
            /\ cValue[c].kind = "Error"
            /\ cValue[c].code = cExit[c]
            /\ cValue[c].stdout = Str(cStdout[c])
            /\ cValue[c].stderr = Str(cStderr[c])
            /\ FaultsOf(c) = {}

\* C5: runCommands([cmdA, cmdB], {stopOnError: true}) where cmdA fails: once
\* the failure has been handled, cmdB has not been spawned and the result
\* sequence of the batch has length 1.
C5_StopOnErrorSkipsRest ==
    (bState # "idle" /\ Len(bCmds) = 2 /\ Truthy(bOpts.stopOnError)
        /\ CmdFailed(1) /\ ~MicrotaskPending) =>
        /\ cCaller[2] = "none"
        /\ Len(bResults) = 1

\* C6: runCommands([cmdA, cmdB], {stopOnError: false}) where cmdA fails: once
\* the failure has been handled cmdB has been executed and cmdA's entry is
\* marked failed; once cmdB has closed too the call has returned two entries
\* and cmdB's entry reflects cmdB's own outcome.
C6_ContinueOnError ==
    (bState # "idle" /\ Len(bCmds) = 2 /\ ~Truthy(bOpts.stopOnError)
        /\ CmdFailed(1) /\ ~MicrotaskPending) =>
        /\ cCaller[2] = "batch"
        /\ Len(bResults) >= 1
        /\ bResults[1].success = FALSE
        /\ cChild[2] \in {"closed", "errored", "failclosed"} =>
              /\ bState = "returned"
              /\ Len(bResults) = 2
              /\ bResults[2].success = ~CmdFailed(2)

\* C7: runCommands runs its commands one at a time in the given order:
\* at most one child of the batch is alive, command i+1 is not spawned before
\* the child of command i has closed (or failed to start) and its result is
\* recorded, and entry i carries the command of input i.
C7_OneAtATime ==
    bState # "idle" =>
        /\ Cardinality({i \in 1..Len(bCmds) : cChild[i] = "alive"}) <= 1
        /\ \A i \in 1..(Len(bCmds) - 1) :
              cCaller[i + 1] # "none" => (cChild[i] \notin {"none", "alive"} /\ Len(bResults) >= i)
        /\ \A i \in 1..Len(bResults) : bResults[i].command = bCmds[i]

\* C8: the promise of executeInTerminal never rejects and no unhandled fault
\* is raised: once a start failure has been reported, the promise is resolved
\* with success=false, exitCode=-1 and the log file path.
C8_StartFailureResolved ==
    /\ \A e \in uncaught : e.in # "executeInTerminal"
    /\ \A l \in Launches :
          /\ tPromise[l] # "rejected"
          /\ tState[l] = "errored" =>
                /\ tPromise[l] = "fulfilled"
                /\ tValue[l].success = FALSE
                /\ tValue[l].exitCode = Num(StartFailureCode)
                /\ tValue[l].outputPath = l

\* C9: when the shell of executeCommand cannot be started, the failure is a
\* result {success: false, code: -1} and never an unhandled fault, for either
\* value of throwOnError and whether or not a close event follows the error
\* (stated for the calls whose listeners are registered, verbose output).
C9_StartFailureIsResult ==
    \A c \in Calls :
        (cListen[c] /\ cChild[c] \in {"errored", "failclosed"}) =>
            /\ cPromise[c] = "fulfilled"
            /\ cValue[c].success = FALSE
            /\ cValue[c].code = Num(StartFailureCode)
            /\ FaultsOf(c) = {}

\* C10: killProcess(pid) for a pid without a record in the registry returns
\* false, raises no fault, sends no signal and leaves the registry unchanged.
C10_KillUnknownPid ==
    [][\A pid \in PidKeys :
          (killProcess(pid) /\ ~MapHas(activeProcesses, pid)) =>
              /\ lastKill'.pid = pid
              /\ lastKill'.ret = FALSE
              /\ lastKill'.signal = "none"
              /\ activeProcesses' = activeProcesses
              /\ uncaught' = uncaught]_vars

\* killProcess has returned false for the pid of a process that was launched,
\* has closed and was removed, while another process is still registered.
C10_Witness ==
    /\ lastKill.called /\ ~lastKill.found /\ lastKill.ret = FALSE
    /\ \E l \in Launches : tState[l] = "closed" /\ tPid[l] = lastKill.pid
    /\ ~MapHas(activeProcesses, lastKill.pid)
    /\ DOMAIN activeProcesses # {}

\* C11: killProcess(pid) never inserts, removes or modifies a record, whether
\* it returns true or false, and a record it found is still there when it
\* returns; a record leaves the registry only in the close handler of the
\* process that owns it.
C11_KillLeavesRegistry ==
    [][/\ \A pid \in PidKeys :
             killProcess(pid) =>
                 /\ activeProcesses' = activeProcesses
                 /\ MapHas(activeProcesses, pid) => MapHas(activeProcesses', pid)
       /\ \A p \in DOMAIN activeProcesses :
             p \notin DOMAIN activeProcesses' =>
                 \E l \in Launches :
                     /\ activeProcesses[p].process = l
                     /\ tState[l] = "exited" /\ tState'[l] = "closed"]_vars

\* C12: isCommandAvailable never throws and, once the lookup utility has
\* closed, has returned true exactly when it exited with code 0; when the
\* shell could not be started it has returned false.
C12_AvailableIffExitZero ==
    \A c \in Calls :
        cCaller[c] = "isCommandAvailable" =>
            /\ cChild[c] = "closed" =>
                  availReturn[c] = IF StrictEquals(cExit[c], Num(0)) THEN "true" ELSE "false"
            /\ cChild[c] \in {"errored", "failclosed"} => availReturn[c] = "false"

\* The entries of the log of launch l that carry the tag.
StreamEntries(l, tag) ==
    LET HasTag(e) == e.tag = tag
    IN  SelectSeq(tLog[l], HasTag)

\* C13: the log of every launch holds every chunk its child has written, as
\* an OUT or ERR entry, each stream's chunks in the order they were written;
\* the only INFO entry is the last entry of an ended log, so nothing is
\* written after it; and once the result is returned the log ends with the
\* INFO entry whose code is the exitCode of the result.
C13_LogOrder ==
    \A l \in Launches :
        /\ \A tag \in {"OUT", "ERR"} :
              /\ Len(StreamEntries(l, tag)) = tWritten[l][tag]
              /\ \A i \in 1..Len(StreamEntries(l, tag)) : StreamEntries(l, tag)[i].n = i
        /\ \A i \in 1..Len(tLog[l]) :
              tLog[l][i].tag = "INFO" => (i = Len(tLog[l]) /\ tEnded[l])
        /\ tEnded[l] => (tLog[l] # <<>> /\ tLog[l][Len(tLog[l])].tag = "INFO")
        /\ tPromise[l] = "fulfilled" =>
              /\ tEnded[l]
              /\ tLog[l][Len(tLog[l])].text = TemplateText(tValue[l].exitCode)

\* A launch has returned its result with exit code 7 after its child wrote
\* two chunks to stdout and the log holds them and the exit line.
C13_Witness ==
    \E l \in Launches :
        /\ tPromise[l] = "fulfilled" /\ tValue[l].exitCode = Num(7)
        /\ tWritten[l].OUT = 2
        /\ Len(tLog[l]) = 3 /\ tLog[l][3].text = "7"

\* C14: when the program has exited, the shutdown hook has called
\* killProcess for every record that is in the registry and reported
\* running, however many there are.
C14_ShutdownKillsAll ==
    exitHook.ran =>
        \A proc \in listProcesses :
            proc.running => \E k \in exitHook.kills : k.called /\ k.pid = proc.pid

\* The program has exited with two running children registered and the hook
\* has called killProcess for both.
C14_Witness ==
    /\ exitHook.ran
    /\ Cardinality(DOMAIN activeProcesses) = 2
    /\ \A l \in Launches : tState[l] = "alive"
    /\ Cardinality(exitHook.kills) = 2

\* C15: a child spawned by executeCommand has a record in the registry from
\* its spawn until its close event: while children of executeCommand are
\* alive, listProcesses() has at least as many entries.
C15_InlineChildRegistered ==
    Cardinality(listProcesses) >= Cardinality({c \in Calls : cChild[c] = "alive"})

\* C16: verbose only controls the echo.  A call with verbose=false is not
\* failed by the option, and two calls that differ in verbose only and whose
\* children closed with the same code are settled alike, with the same
\* success and code.
C16_VerboseOnlyEchoes ==
    /\ \A c \in Calls :
          (cCaller[c] # "none" /\ ~cOpts[c].verbose) => cValue[c].kind # "TypeError"
    /\ \A c \in Calls, d \in Calls :
          (/\ cCaller[c] = "direct" /\ cCaller[d] = "direct"
           /\ cOpts[c].verbose /\ ~cOpts[d].verbose
           /\ cOpts[c].throwOnError = cOpts[d].throwOnError
           /\ cChild[c] = "closed" /\ cChild[d] = "closed" /\ cExit[c] = cExit[d]) =>
              /\ cPromise[c] = cPromise[d]
              /\ cValue[c].success = cValue[d].success
              /\ cValue[c].code = cValue[d].code

\* C17: every invocation produces its result exactly once: once the child of
\* an executeCommand call or of an executeInTerminal launch has closed, the
\* promise of the invocation is settled (it is not left pending) and no
\* event of that child has raised.
C17_ResultExactlyOnce ==
    /\ \A c \in Calls :
          (cCaller[c] # "none" /\ cChild[c] \in {"closed", "failclosed"}) =>
              (Settled(c) /\ FaultsOf(c) = {})
    /\ \A l \in Launches :
          tState[l] = "closed" => tPromise[l] = "fulfilled"

\* C18: getProcessInfo(pid) raises nothing and never changes the registry;
\* it returns null when the registry has no record for pid, in particular
\* for the pid of a launch that has closed and that no later launch holds,
\* and otherwise the entry listProcesses() reports for pid in that state.
C18_InfoMatchesListing ==
    [][\A pid \in PidKeys :
          getProcessInfo(pid) =>
              /\ activeProcesses' = activeProcesses
              /\ uncaught' = uncaught
              /\ lastInfo'.pid = pid
              /\ (~\E proc \in listProcesses : proc.pid = pid) => lastInfo'.info = NullInfo
              /\ \A proc \in listProcesses : proc.pid = pid => lastInfo'.info = proc
              /\ (/\ \E l \in Launches : tState[l] = "closed" /\ tPid[l] = pid
                  /\ ~\E l \in Launches : tState[l] \notin {"none", "closed"} /\ tPid[l] = pid)
                    => lastInfo'.info = NullInfo]_vars

\* getProcessInfo has returned the listed entry of a registered launch while
\* another launch has closed.
C18_Witness ==
    /\ lastInfo.called /\ lastInfo.info # NullInfo
    /\ lastInfo.info \in listProcesses
    /\ lastInfo.info.pid = lastInfo.pid /\ lastInfo.info.running
    /\ \E l \in Launches : tState[l] = "closed"

\* C19: every failed command delivers its diagnostics to the caller: once a
\* child of executeCommand has closed with a failing code the call is settled
\* (returned or raised) with the stderr text captured so far, once the shell
\* could not be started the call is settled with a stderr text; and every
\* result of executeInTerminal carries the path of the log file of its launch.
C19_FailureCarriesDiagnostics ==
    /\ \A c \in Calls :
          (cCaller[c] # "none" /\ CmdFailed(c)) =>
              /\ Settled(c)
              /\ cValue[c].stderr.t = "string"
              /\ cChild[c] = "closed" => cValue[c].stderr = Str(cStderr[c])
    /\ \A l \in Launches :
          tPromise[l] = "fulfilled" => tValue[l].outputPath = l

\* The invocation leaves the shell of the window open after the command.
KeepsOpen(invocation) == invocation.keepCmd \in {"/k", "; $SHELL"}

\* The invocation has a step that waits for a key press.
Pauses(invocation) == invocation.waitCmd # ""

\* C20: on either platform and for each combination of keepOpen and wait,
\* the invocation of a launch keeps the shell open exactly when keepOpen is
\* true and has the pause step exactly when wait is true.
C20_OptionsHonoured ==
    [][\A l \in Launches, keepOpenOpt \in OptionValues, waitOpt \in OptionValues :
          executeInNewTerminal(l, keepOpenOpt, waitOpt) =>
              /\ KeepsOpen(activeProcesses'[tPid'[l]].command) = OptionOr(keepOpenOpt, TRUE)
              /\ Pauses(activeProcesses'[tPid'[l]].command) = OptionOr(waitOpt, TRUE)]_vars

\* C21: the close handler of a launch writes the exit line and ends the log
\* stream, removes the record and then resolves the result: in the step that
\* resolves the result the log has its exit line as last entry and is ended
\* and the registry has no record under the pid of the launch, and a
\* resolved launch always has an ended log and no record of its own.
C21_FinalizeRemoveResolve ==
    /\ [](\A l \in Launches :
             tPromise[l] = "fulfilled" =>
                 /\ tEnded[l]
                 /\ tLog[l][Len(tLog[l])].tag = "INFO"
                 /\ ~\E p \in DOMAIN activeProcesses : activeProcesses[p].process = l)
    /\ [][\A l \in Launches :
             (tPromise[l] = "pending" /\ tPromise'[l] = "fulfilled") =>
                 /\ tEnded'[l]
                 /\ tLog'[l][Len(tLog'[l])].tag = "INFO"
                 /\ ~MapHas(activeProcesses', tPid[l])]_vars

\* A launch that wrote a chunk has been resolved while the record of the
\* other launch is still in the registry.
C21_Witness ==
    \E l \in Launches :
        /\ tPromise[l] = "fulfilled" /\ tEnded[l] /\ Len(tLog[l]) = 2
        /\ ~MapHas(activeProcesses, tPid[l])
        /\ DOMAIN activeProcesses # {}

\* C22: a failed start leaves no partial registry state: once the failure
\* of a launch has been handled the registry holds no record of that launch,
\* and the registry never holds a record under the undefined pid.
C22_NoRecordOfFailedStart ==
    /\ ~MapHas(activeProcesses, UndefinedPid)
    /\ \A l \in Launches :
          tState[l] = "errored" =>
              ~\E p \in DOMAIN activeProcesses : activeProcesses[p].process = l

\* C23: the log stream of every launch is closed on every exit path: once
\* the invocation has finished (its child closed, its start failed with an
\* error event, or spawn threw) the stream is ended; it is ended by the
\* close handler of the launch only, and nothing is written after the end.
C23_LogStreamClosedOnce ==
    \A l \in Launches :
        /\ tState[l] \in {"closed", "errored", "threw"} => tEnded[l]
        /\ tEnded[l] => (tState[l] = "closed" /\ tLog[l][Len(tLog[l])].tag = "INFO")

\* C24: the close handler of a launch removes or alters no record of another
\* launch, also when the other launch was given the pid of the closing one
\* while its close was pending.
C24_CloseTouchesOwnRecordOnly ==
    [][\A l \in Launches :
          (tState[l] = "exited" /\ tState'[l] = "closed") =>
              \A p \in DOMAIN activeProcesses :
                  activeProcesses[p].process # l =>
                      (MapHas(activeProcesses', p) /\ activeProcesses'[p] = activeProcesses[p])]_vars

\* C25: registering a launch under a pid that already has an entry leaves
\* that entry as it is: no step of a launch overwrites an existing record.
C25_NoSilentOverwrite ==
    [][\A l \in Launches :
          (tState[l] = "none" /\ tState'[l] # "none") =>
              \A p \in DOMAIN activeProcesses :
                  MapHas(activeProcesses', p) /\ activeProcesses'[p] = activeProcesses[p]]_vars

\* C26: every record listProcesses() or getProcessInfo() returns has
\* running = true, also after killProcess was called for it and before its
\* close event.
C26_RunningAlwaysTrue ==
    /\ \A proc \in listProcesses : proc.running
    /\ \A pid \in PidKeys : InfoOf(pid) # NullInfo => InfoOf(pid).running
    /\ lastInfo.info # NullInfo => lastInfo.info.running

\* killProcess has returned true for a launch that has not closed, and
\* getProcessInfo has then returned its record, which is still listed.
C26_Witness ==
    /\ lastKill.called /\ lastKill.ret
    /\ lastInfo.called /\ lastInfo.pid = lastKill.pid /\ lastInfo.info # NullInfo
    /\ \E proc \in listProcesses : proc.pid = lastKill.pid
    /\ \E l \in Launches : tPid[l] = lastKill.pid /\ tState[l] = "alive"

\* killProcess has returned true for the pid of launch l and the child of l
\* has ended without success (by the signal: code null; by taskkill: a
\* failing code); its close event is still to come.
Cancelled(l) ==
    /\ lastKill.called /\ lastKill.ret /\ lastKill.pid = tPid[l]
    /\ tState[l] = "exited" /\ ~StrictEquals(tExit[l], Num(0))

\* C27: a result is resolved only once its child has closed, and after a
\* successful killProcess that ended the child, the record under its pid is
\* eventually removed and the result eventually resolved with success false.
C27_CancelCompletes ==
    /\ [](\A l \in Launches : tPromise[l] = "fulfilled" => tState[l] = "closed")
    /\ \A l \in Launches :
          Cancelled(l) ~> (/\ tPromise[l] = "fulfilled" /\ ~tValue[l].success
                           /\ ~MapHas(activeProcesses, tPid[l]))

\* C28: a call of killProcess that finds the record but whose termination
\* request cannot reach a process returns false, raises nothing and leaves
\* the registry unchanged; a call returns true only when a request was issued.
C28_KillFailureIsValue ==
    [][\A pid \in PidKeys :
          (killProcess(pid) /\ MapHas(activeProcesses, pid)) =>
              /\ ~lastKill'.reached => lastKill'.ret = FALSE
              /\ lastKill'.ret => lastKill'.signal # "none"
              /\ activeProcesses' = activeProcesses
              /\ uncaught' = uncaught]_vars

\* C29: the record of a launch is registered before its first chunk can be
\* handled: in every step that writes a stdout or stderr chunk of a launch
\* to the log, the registry holds a record under the pid of that launch.
C29_RegisteredBeforeOutput ==
    [][\A l \in Launches :
          tWritten'[l] # tWritten[l] => MapHas(activeProcesses, tPid[l])]_vars

====
